---- MODULE Spec2Model ----
(***************************************************************************)
(* Model of homeassistant/components/cover/__init__.py (CoverEntity and    *)
(* the entity services registered by async_setup) and of                   *)
(* homeassistant/components/wallbox/sensor.py (WallboxSensor.native_value).*)
(*                                                                         *)
(* Python's Optional values are modelled as sets of at most one element:   *)
(* None is {} and a value v is {v}.                                        *)
(***************************************************************************)
EXTENDS Integers, Sequences, FiniteSets

VARIABLES
    _attr_is_opening,                   \* bool | None
    _attr_is_closing,                   \* bool | None
    _attr_is_closed,                    \* bool | None
    _attr_current_cover_position,       \* int | None
    _attr_current_cover_tilt_position,  \* int | None
    _attr_supported_features,           \* int | None, the declared override
    _attr_state,                        \* None = None, never assigned
    overridden,                         \* primitives the concrete driver overrides
    call,                               \* the command in flight, if any
    lastRead,                           \* the value a property read returned in the last step
    data,                               \* coordinator.data[entity_description.key]
    precision,                          \* entity_description.precision
    native                              \* the outcome of the last native_value read

coverFields == <<_attr_is_opening, _attr_is_closing, _attr_is_closed,
                 _attr_current_cover_position, _attr_current_cover_tilt_position,
                 _attr_supported_features, _attr_state>>
coverVars == <<coverFields, overridden, call, lastRead>>
sensorVars == <<data, precision, native>>
vars == <<coverVars, sensorVars>>

None == {}

Some(v) == {v}

\* Bounds of the model.
NumLowPositions == 1
MaxEighths == 13
MaxInt == 2
MaxPrecision == 2

\* Program constants.
SUPPORT_OPEN == 1
SUPPORT_CLOSE == 2
SUPPORT_SET_POSITION == 4
SUPPORT_STOP == 8
SUPPORT_OPEN_TILT == 16
SUPPORT_CLOSE_TILT == 32
SUPPORT_STOP_TILT == 64
SUPPORT_SET_TILT_POSITION == 128
MIN_POSITION == 0
MAX_POSITION == 100

STATE_OPENING == "opening"
STATE_CLOSING == "closing"
STATE_CLOSED == "closed"
STATE_OPEN == "open"

\* Python's | and & on the 8-bit feature masks.
RECURSIVE BitOr(_, _)
BitOr(a, b) ==
    IF a = 0 THEN b
    ELSE IF b = 0 THEN a
    ELSE (IF (a % 2) + (b % 2) > 0 THEN 1 ELSE 0) + 2 * BitOr(a \div 2, b \div 2)

RECURSIVE BitAnd(_, _)
BitAnd(a, b) ==
    IF a = 0 \/ b = 0 THEN 0
    ELSE (IF (a % 2) + (b % 2) = 2 THEN 1 ELSE 0) + 2 * BitAnd(a \div 2, b \div 2)

\* Python truthiness of a bool | None value: None and False are falsy.
Truthy(x) == x = Some(TRUE)

OptBool == {None, Some(TRUE), Some(FALSE)}

Positions == {p \in MIN_POSITION..MAX_POSITION : p < NumLowPositions \/ p = MAX_POSITION}

OptPosition == {None} \cup {Some(p) : p \in Positions}

\* The override sets a concrete device may declare.
FeatureOverrides == {None, Some(0), Some(SUPPORT_OPEN)}

(***************************************************************************)
(* CoverEntity properties                                                  *)
(***************************************************************************)
current_cover_position == _attr_current_cover_position

current_cover_tilt_position == _attr_current_cover_tilt_position

is_opening == _attr_is_opening

is_closing == _attr_is_closing

is_closed == _attr_is_closed

state_cached == _attr_state

state_closing_first ==
    IF Truthy(is_closing) THEN Some(STATE_CLOSING)
    ELSE IF Truthy(is_opening) THEN Some(STATE_OPENING)
    ELSE IF is_closed = None THEN None
    ELSE IF Truthy(is_closed) THEN Some(STATE_CLOSED) ELSE Some(STATE_OPEN)

state ==
    IF Truthy(is_opening) THEN Some(STATE_OPENING)
    ELSE IF Truthy(is_closing) THEN Some(STATE_CLOSING)
    ELSE IF is_closed = None THEN None
    ELSE IF Truthy(is_closed) THEN Some(STATE_CLOSED) ELSE Some(STATE_OPEN)

supported_features_truthy_override ==
    IF _attr_supported_features # None /\ _attr_supported_features # Some(0)
    THEN CHOOSE f \in _attr_supported_features : TRUE
    ELSE LET base == BitOr(BitOr(SUPPORT_OPEN, SUPPORT_CLOSE), SUPPORT_STOP)
             withPos == IF current_cover_position # None
                        THEN BitOr(base, SUPPORT_SET_POSITION) ELSE base
         IN  IF current_cover_tilt_position # None
             THEN BitOr(withPos, BitOr(BitOr(SUPPORT_OPEN_TILT, SUPPORT_CLOSE_TILT),
                                       BitOr(SUPPORT_STOP_TILT, SUPPORT_SET_TILT_POSITION)))
             ELSE withPos

supported_features ==
    IF _attr_supported_features # None
    THEN CHOOSE f \in _attr_supported_features : TRUE
    ELSE LET base == BitOr(BitOr(SUPPORT_OPEN, SUPPORT_CLOSE), SUPPORT_STOP)
             withPos == IF current_cover_position # None
                        THEN BitOr(base, SUPPORT_SET_POSITION) ELSE base
         IN  IF current_cover_tilt_position # None
             THEN BitOr(withPos, BitOr(BitOr(SUPPORT_OPEN_TILT, SUPPORT_CLOSE_TILT),
                                       BitOr(SUPPORT_STOP_TILT, SUPPORT_SET_TILT_POSITION)))
             ELSE withPos

(***************************************************************************)
(* The concrete device driver: it owns the signals and rewrites them on    *)
(* its poll/update cycle.                                                  *)
(***************************************************************************)
WriteOneField ==
    \/ /\ _attr_is_opening' \in OptBool
       /\ UNCHANGED <<_attr_is_closing, _attr_is_closed,
                      _attr_current_cover_position, _attr_current_cover_tilt_position>>
    \/ /\ _attr_is_closing' \in OptBool
       /\ UNCHANGED <<_attr_is_opening, _attr_is_closed,
                      _attr_current_cover_position, _attr_current_cover_tilt_position>>
    \/ /\ _attr_is_closed' \in OptBool
       /\ UNCHANGED <<_attr_is_opening, _attr_is_closing,
                      _attr_current_cover_position, _attr_current_cover_tilt_position>>
    \/ /\ _attr_current_cover_position' \in OptPosition
       /\ UNCHANGED <<_attr_is_opening, _attr_is_closing, _attr_is_closed,
                      _attr_current_cover_tilt_position>>
    \/ /\ _attr_current_cover_tilt_position' \in OptPosition
       /\ UNCHANGED <<_attr_is_opening, _attr_is_closing, _attr_is_closed,
                      _attr_current_cover_position>>

NoRead == [prop |-> "none", value |-> None]

DriverWrite ==
    /\ WriteOneField
    /\ lastRead' = NoRead
    /\ UNCHANGED <<_attr_supported_features, _attr_state, overridden, call, sensorVars>>

(***************************************************************************)
(* Property reads by the state-publication collaborator.                   *)
(***************************************************************************)
ReadState ==
    /\ lastRead' = [prop |-> "state", value |-> state]
    /\ UNCHANGED <<coverFields, overridden, call, sensorVars>>

ReadPosition ==
    /\ lastRead' = [prop |-> "current_cover_position", value |-> current_cover_position]
    /\ UNCHANGED <<coverFields, overridden, call, sensorVars>>

ReadTiltPosition ==
    /\ lastRead' = [prop |-> "current_cover_tilt_position",
                    value |-> current_cover_tilt_position]
    /\ UNCHANGED <<coverFields, overridden, call, sensorVars>>

ReadSupportedFeatures ==
    /\ lastRead' = [prop |-> "supported_features", value |-> Some(supported_features)]
    /\ UNCHANGED <<coverFields, overridden, call, sensorVars>>

(***************************************************************************)
(* Command primitives, their asynchronous wrappers and the toggles.        *)
(***************************************************************************)
Primitives == {"open_cover", "close_cover", "set_cover_position", "stop_cover",
               "open_cover_tilt", "close_cover_tilt", "set_cover_tilt_position",
               "stop_cover_tilt"}

Operations == Primitives \cup {"toggle", "toggle_tilt"}

\* Which primitives a concrete driver overrides.
DriverKinds == {{}, {"open_cover", "close_cover"}, Primitives}

DriverOutcomes == {"ok", "DeviceCommunicationError"}

IdleCall == [pc |-> "idle", origin |-> "none", op |-> "none", job |-> "none",
             ran |-> <<>>, exc |-> "", result |-> ""]

NoCallInFlight == call.pc = "idle"

signals == <<_attr_is_opening, _attr_is_closing, _attr_is_closed,
             _attr_current_cover_position, _attr_current_cover_tilt_position>>

\* How the base-class body of primitive p ends.
BaseOutcome_all_noop(p) == "ok"

BaseOutcome(p) ==
    IF p \in {"open_cover", "close_cover"} THEN "NotImplementedError" ELSE "ok"

\* What the base-class body of primitive p does to the entity.
BaseEffect_stop_clears_motion(p) ==
    IF p \in {"stop_cover", "stop_cover_tilt"}
    THEN /\ _attr_is_opening' = Some(FALSE)
         /\ _attr_is_closing' = Some(FALSE)
         /\ UNCHANGED <<_attr_is_closed, _attr_current_cover_position,
                        _attr_current_cover_tilt_position>>
    ELSE UNCHANGED signals

BaseEffect(p) == UNCHANGED signals

\* self.p(**kwargs): the driver's override when there is one (device I/O that
\* ends normally or with a communication error; the driver rewrites the
\* signals in its update cycle, DriverWrite), the base-class body otherwise.
RunPrimitive(p, out) ==
    IF p \in overridden
    THEN /\ out \in DriverOutcomes
         /\ UNCHANGED signals
    ELSE /\ out = BaseOutcome(p)
         /\ BaseEffect(p)

toggle_cmd_none_opens == IF is_closed # Some(FALSE) THEN "open_cover" ELSE "close_cover"

toggle_cmd == IF Truthy(is_closed) THEN "open_cover" ELSE "close_cover"

async_toggle_cmd == IF Truthy(is_closed) THEN "open_cover" ELSE "close_cover"

toggle_tilt_cmd_falsy_opens ==
    IF current_cover_tilt_position \in {None, Some(0)}
    THEN "open_cover_tilt" ELSE "close_cover_tilt"

toggle_tilt_cmd ==
    IF current_cover_tilt_position = Some(0) THEN "open_cover_tilt" ELSE "close_cover_tilt"

async_toggle_tilt_cmd ==
    IF current_cover_tilt_position = Some(0) THEN "open_cover_tilt" ELSE "close_cover_tilt"

\* The primitive a synchronous call of op runs.
SyncTarget(op) ==
    IF op = "toggle" THEN toggle_cmd
    ELSE IF op = "toggle_tilt" THEN toggle_tilt_cmd
    ELSE op

\* The primitive async_<op> hands to hass.async_add_executor_job.
ExecutorJob(op) ==
    IF op = "toggle" THEN async_toggle_cmd
    ELSE IF op = "toggle_tilt" THEN async_toggle_tilt_cmd
    ELSE op

\* entity.op(**kwargs) called directly, on the caller's thread.
SyncCall(op) ==
    /\ NoCallInFlight
    /\ \E out \in DriverOutcomes \cup {"NotImplementedError"} :
         /\ RunPrimitive(SyncTarget(op), out)
         /\ call' = [pc |-> "returned", origin |-> "sync", op |-> op, job |-> "none",
                     ran |-> <<SyncTarget(op)>>, exc |-> out, result |-> out]
    /\ lastRead' = NoRead
    /\ UNCHANGED <<_attr_supported_features, _attr_state, overridden, sensorVars>>

\* await entity.async_<op>(**kwargs), up to the await on the executor job.
SubmitJob(origin, op) ==
    call' = [pc |-> "queued", origin |-> origin, op |-> op, job |-> ExecutorJob(op),
             ran |-> <<>>, exc |-> "", result |-> ""]

AsyncCall(op) ==
    /\ NoCallInFlight
    /\ SubmitJob("async", op)
    /\ lastRead' = NoRead
    /\ UNCHANGED <<coverFields, overridden, sensorVars>>

\* The executor's worker thread runs the job.
WorkerRun ==
    /\ call.pc = "queued"
    /\ \E out \in DriverOutcomes \cup {"NotImplementedError"} :
         /\ RunPrimitive(call.job, out)
         /\ call' = [call EXCEPT !.pc = "finished", !.ran = <<call.job>>, !.exc = out]
    /\ lastRead' = NoRead
    /\ UNCHANGED <<_attr_supported_features, _attr_state, overridden, sensorVars>>

\* The await on the executor job completes once the job is done.
AwaitDone_not_awaited == call.pc \in {"queued", "finished"}

AwaitDone == call.pc = "finished"

\* The wrapper resumes and returns, or re-raises what the job raised.
WrapperReturn ==
    /\ AwaitDone
    /\ call' = [call EXCEPT !.pc = "returned", !.result = call.exc]
    /\ lastRead' = NoRead
    /\ UNCHANGED <<coverFields, overridden, sensorVars>>

\* The caller has the outcome of its command and may issue the next one.
CallerContinues ==
    /\ call.pc \in {"returned", "rejected"}
    /\ call' = IdleCall
    /\ lastRead' = NoRead
    /\ UNCHANGED <<coverFields, overridden, sensorVars>>

(***************************************************************************)
(* Entity services registered by async_setup.                              *)
(***************************************************************************)
ServiceRequired_toggle_open_only(op) ==
    CASE op = "open_cover" -> SUPPORT_OPEN
      [] op = "close_cover" -> SUPPORT_CLOSE
      [] op = "set_cover_position" -> SUPPORT_SET_POSITION
      [] op = "stop_cover" -> SUPPORT_STOP
      [] op = "toggle" -> SUPPORT_OPEN
      [] op = "open_cover_tilt" -> SUPPORT_OPEN_TILT
      [] op = "close_cover_tilt" -> SUPPORT_CLOSE_TILT
      [] op = "stop_cover_tilt" -> SUPPORT_STOP_TILT
      [] op = "set_cover_tilt_position" -> SUPPORT_SET_TILT_POSITION
      [] op = "toggle_tilt" -> SUPPORT_OPEN_TILT

ServiceRequired(op) ==
    CASE op = "open_cover" -> SUPPORT_OPEN
      [] op = "close_cover" -> SUPPORT_CLOSE
      [] op = "set_cover_position" -> SUPPORT_SET_POSITION
      [] op = "stop_cover" -> SUPPORT_STOP
      [] op = "toggle" -> BitOr(SUPPORT_OPEN, SUPPORT_CLOSE)
      [] op = "open_cover_tilt" -> SUPPORT_OPEN_TILT
      [] op = "close_cover_tilt" -> SUPPORT_CLOSE_TILT
      [] op = "stop_cover_tilt" -> SUPPORT_STOP_TILT
      [] op = "set_cover_tilt_position" -> SUPPORT_SET_TILT_POSITION
      [] op = "toggle_tilt" -> BitOr(SUPPORT_OPEN_TILT, SUPPORT_CLOSE_TILT)

\* The position argument a service caller may send with a set-position
\* service; the other services are called without one.
ArgInputs(op) ==
    IF op \in {"set_cover_position", "set_cover_tilt_position"}
    THEN {Some(MIN_POSITION - 1), Some(MIN_POSITION), Some(MAX_POSITION),
          Some(MAX_POSITION + 1)}
    ELSE {None}

\* vol.All(vol.Coerce(int), vol.Range(min=0, max=100)) on the two set-position
\* services; the other services take no argument.
SchemaValid(op, arg) ==
    op \in {"set_cover_position", "set_cover_tilt_position"}
        => \E a \in arg : MIN_POSITION <= a /\ a <= MAX_POSITION

\* The service-registration collaborator's capability check.
HasRequiredFeatures(op) ==
    BitAnd(supported_features, ServiceRequired(op)) = ServiceRequired(op)

ServiceCall(op, arg) ==
    /\ NoCallInFlight
    /\ IF ~SchemaValid(op, arg)
       THEN call' = [pc |-> "rejected", origin |-> "service", op |-> op, job |-> "none",
                     ran |-> <<>>, exc |-> "", result |-> "ValidationError"]
       ELSE IF ~HasRequiredFeatures(op)
       THEN call' = [pc |-> "rejected", origin |-> "service", op |-> op, job |-> "none",
                     ran |-> <<>>, exc |-> "", result |-> "NotSupported"]
       ELSE SubmitJob("service", op)
    /\ lastRead' = NoRead
    /\ UNCHANGED <<coverFields, overridden, sensorVars>>

(***************************************************************************)
(* Specifications of the cover entity.                                     *)
(***************************************************************************)
SensorIdle ==
    /\ data = [kind |-> "none", num |-> 0, den |-> 1]
    /\ precision = None
    /\ native = [exc |-> "", value |-> [kind |-> "unread", num |-> 0, den |-> 1]]

CoverInit ==
    /\ _attr_is_opening \in OptBool
    /\ _attr_is_closing \in OptBool
    /\ _attr_is_closed \in OptBool
    /\ _attr_current_cover_position \in OptPosition
    /\ _attr_current_cover_tilt_position \in OptPosition
    /\ _attr_supported_features \in FeatureOverrides
    /\ _attr_state = None
    /\ call = IdleCall
    /\ lastRead = NoRead

Init ==
    /\ CoverInit
    /\ overridden \in DriverKinds
    /\ SensorIdle

Next ==
    \/ DriverWrite
    \/ \E op \in Operations : SyncCall(op)
    \/ \E op \in Operations : AsyncCall(op)
    \/ \E op \in Operations : \E arg \in ArgInputs(op) : ServiceCall(op, arg)
    \/ WorkerRun
    \/ WrapperReturn
    \/ CallerContinues

Spec == Init /\ [][Next]_vars

\* Property reads interleaved with driver writes and in-flight commands, on a
\* device that overrides no primitive.
ReadInit ==
    /\ CoverInit
    /\ overridden = {}
    /\ SensorIdle

ReadNext ==
    \/ DriverWrite
    \/ ReadState
    \/ ReadPosition
    \/ ReadTiltPosition
    \/ ReadSupportedFeatures
    \/ \E op \in Operations : AsyncCall(op)
    \/ WorkerRun
    \/ WrapperReturn
    \/ CallerContinues

ReadSpec == ReadInit /\ [][ReadNext]_vars

(***************************************************************************)
(* WallboxSensor.  A cached value is [kind, num, den]: a float num/den, an  *)
(* int num (den = 1), a str or None.  Cached floats are multiples of 1/8,  *)
(* which binary floating point represents exactly, so that Python's round  *)
(* is round-half-even on the value written here.                           *)
(***************************************************************************)
NoneValue == [kind |-> "none", num |-> 0, den |-> 1]

Unread == [exc |-> "", value |-> [kind |-> "unread", num |-> 0, den |-> 1]]

DataValues ==
    {[kind |-> "float", num |-> v, den |-> 8] : v \in (0 - MaxEighths)..MaxEighths}
        \cup {[kind |-> "int", num |-> i, den |-> 1] : i \in (0 - MaxInt)..MaxInt}
        \cup {[kind |-> "str", num |-> 0, den |-> 1], NoneValue}

PrecisionValues == {None} \cup {Some(n) : n \in 0..MaxPrecision}

RECURSIVE Pow10(_)
Pow10(n) == IF n = 0 THEN 1 ELSE 10 * Pow10(n - 1)

\* Python's round(v, n) for n >= 0: float.__round__ rounds half to even,
\* int.__round__ returns the int, any other type raises TypeError.
round(v, n) ==
    IF v.kind = "float"
    THEN LET scaled == v.num * Pow10(n)
             q == scaled \div v.den
             r == scaled % v.den
             m == IF 2 * r < v.den THEN q
                  ELSE IF 2 * r > v.den THEN q + 1
                  ELSE IF q % 2 = 0 THEN q ELSE q + 1
         IN  [exc |-> "", value |-> [kind |-> "float", num |-> m, den |-> Pow10(n)]]
    ELSE IF v.kind = "int"
    THEN [exc |-> "", value |-> v]
    ELSE [exc |-> "TypeError", value |-> NoneValue]

native_value_precision_truthy ==
    IF precision # None /\ precision # Some(0)
    THEN LET rounded == round(data, CHOOSE n \in precision : TRUE)
         IN  IF rounded.exc = "TypeError"
             THEN [exc |-> "", value |-> NoneValue]
             ELSE rounded
    ELSE [exc |-> "", value |-> data]

native_value ==
    IF precision # None
    THEN LET rounded == round(data, CHOOSE n \in precision : TRUE)
         IN  IF rounded.exc = "TypeError"
             THEN [exc |-> "", value |-> NoneValue]
             ELSE rounded
    ELSE [exc |-> "", value |-> data]

\* The polling coordinator replaces the cached value.
CoordinatorUpdate ==
    /\ data' \in DataValues
    /\ native' = Unread
    /\ UNCHANGED <<precision, coverVars>>

ReadNativeValue ==
    /\ native' = native_value
    /\ UNCHANGED <<data, precision, coverVars>>

SensorInit ==
    /\ data \in DataValues
    /\ precision \in PrecisionValues
    /\ native = Unread
    /\ _attr_is_opening = None
    /\ _attr_is_closing = None
    /\ _attr_is_closed = None
    /\ _attr_current_cover_position = None
    /\ _attr_current_cover_tilt_position = None
    /\ _attr_supported_features = None
    /\ _attr_state = None
    /\ overridden = {}
    /\ call = IdleCall
    /\ lastRead = NoRead

SensorNext ==
    \/ CoordinatorUpdate
    \/ ReadNativeValue

SensorSpec == SensorInit /\ [][SensorNext]_vars

(***************************************************************************)
(* Properties.                                                             *)
(***************************************************************************)
\* The precedence table of the state property, over the raw signals.
PrecedenceTable(opening, closing, closed) ==
    CASE opening = {TRUE} -> {"opening"}
      [] opening # {TRUE} /\ closing = {TRUE} -> {"closing"}
      [] opening # {TRUE} /\ closing # {TRUE} /\ closed = {} -> {}
      [] opening # {TRUE} /\ closing # {TRUE} /\ closed = {TRUE} -> {"closed"}
      [] opening # {TRUE} /\ closing # {TRUE} /\ closed = {FALSE} -> {"open"}

\* C1: whatever the three signals are (each true, false or unknown), a read
\* of state yields Opening if is_opening is true, else Closing if is_closing
\* is true, else unknown if is_closed is unknown, else Closed or Open after
\* is_closed.
C1_StatePrecedence ==
    lastRead.prop = "state" =>
        lastRead.value =
            PrecedenceTable(_attr_is_opening, _attr_is_closing, _attr_is_closed)

C1_Witness ==
    /\ lastRead.prop = "state"
    /\ lastRead.value = {"opening"}
    /\ _attr_is_opening = {TRUE}
    /\ _attr_is_closing = {TRUE}
    /\ _attr_is_closed = {}

\* The default capability set as a sum of the flag values.
DefaultFeatures(position, tilt) ==
    1 + 2 + 8 + (IF position # {} THEN 4 ELSE 0)
              + (IF tilt # {} THEN 16 + 32 + 64 + 128 ELSE 0)

\* C2: a read of supported_features yields the declared override unchanged
\* when there is one (also the empty set 0), and otherwise Open, Close, Stop,
\* plus SetPosition iff a position is reported, plus the four tilt flags
\* iff a tilt position is reported (0 is a reported position).
C2_SupportedFeatures ==
    lastRead.prop = "supported_features" =>
        IF _attr_supported_features # {}
        THEN lastRead.value = _attr_supported_features
        ELSE lastRead.value = {DefaultFeatures(_attr_current_cover_position,
                                               _attr_current_cover_tilt_position)}

\* The capability set of an entity with the given override and readings.
FeaturesOf(override, position, tilt) ==
    IF override # {} THEN override ELSE {DefaultFeatures(position, tilt)}

C2_Witness ==
    /\ lastRead.prop = "supported_features"
    /\ lastRead.value = {0}
    /\ _attr_supported_features = {0}
    /\ _attr_current_cover_position = {0}
    /\ _attr_current_cover_tilt_position = {0}

\* A step that starts a new call.
StartsCall == NoCallInFlight /\ call' # call

\* A step in which a primitive runs to its end.
RunsPrimitive ==
    \/ StartsCall /\ call'.origin = "sync"
    \/ call.pc = "queued" /\ call'.pc = "finished"

\* C3: toggle() and async_toggle() dispatch exactly one command, chosen from
\* is_closed as it is when the call is made: open when it is true, close
\* when it is false or unknown; both variants choose alike, and nothing but
\* the chosen command runs for the call.
C3_ToggleDirection ==
    [][/\ (StartsCall /\ call'.op = "toggle" /\ call'.pc # "rejected") =>
            LET cmd == IF _attr_is_closed = {TRUE} THEN "open_cover" ELSE "close_cover"
            IN  \/ call'.origin = "sync" /\ call'.ran = <<cmd>>
                \/ /\ call'.origin \in {"async", "service"}
                   /\ call'.job = cmd
                   /\ call'.ran = <<>>
       /\ (call.op = "toggle" /\ call.pc \in {"queued", "finished"}) =>
            /\ call'.op = "toggle"
            /\ call'.job = call.job
            /\ call'.ran = IF call.pc = "queued" /\ call'.pc = "queued"
                           THEN <<>> ELSE <<call.job>>
      ]_vars

C3_Witness ==
    /\ call.op = "toggle"
    /\ call.origin = "async"
    /\ call.pc = "returned"
    /\ call.ran = <<"close_cover">>
    /\ _attr_is_closed = {}

\* C4: toggle_tilt() and async_toggle_tilt() dispatch exactly one command,
\* chosen from current_cover_tilt_position as it is when the call is made:
\* open-tilt when it is exactly 0, close-tilt for any other position and
\* when it is unknown.
C4_ToggleTiltDirection ==
    [][/\ (StartsCall /\ call'.op = "toggle_tilt" /\ call'.pc # "rejected") =>
            LET cmd == IF _attr_current_cover_tilt_position = {0}
                       THEN "open_cover_tilt" ELSE "close_cover_tilt"
            IN  \/ call'.origin = "sync" /\ call'.ran = <<cmd>>
                \/ /\ call'.origin \in {"async", "service"}
                   /\ call'.job = cmd
                   /\ call'.ran = <<>>
       /\ (call.op = "toggle_tilt" /\ call.pc \in {"queued", "finished"}) =>
            /\ call'.op = "toggle_tilt"
            /\ call'.job = call.job
            /\ call'.ran = IF call.pc = "queued" /\ call'.pc = "queued"
                           THEN <<>> ELSE <<call.job>>
      ]_vars

C4_Witness ==
    /\ call.op = "toggle_tilt"
    /\ call.origin = "sync"
    /\ call.pc = "returned"
    /\ call.ran = <<"close_cover_tilt">>
    /\ _attr_current_cover_tilt_position = {}

\* The capabilities each service needs, as flag values.
Needs(op) ==
    CASE op = "open_cover" -> {1}
      [] op = "close_cover" -> {2}
      [] op = "set_cover_position" -> {4}
      [] op = "stop_cover" -> {8}
      [] op = "toggle" -> {1, 2}
      [] op = "open_cover_tilt" -> {16}
      [] op = "close_cover_tilt" -> {32}
      [] op = "stop_cover_tilt" -> {64}
      [] op = "set_cover_tilt_position" -> {128}
      [] op = "toggle_tilt" -> {16, 32}

HasFlag(features, flag) == (features \div flag) % 2 = 1

\* C5: a service call for a command of which the entity's supported_features
\* lacks a required flag is rejected, and no primitive runs for a rejected
\* call.
C5_ServiceGate ==
    [][/\ (/\ StartsCall
           /\ call'.origin = "service"
           /\ \E flag \in Needs(call'.op) : ~HasFlag(supported_features, flag))
          => (call'.pc = "rejected" /\ call'.ran = <<>> /\ call'.job = "none")
       /\ call.pc = "rejected" => ~(call'.origin = "service" /\ call'.ran # <<>>)
      ]_vars

C5_Witness ==
    /\ call.pc = "rejected"
    /\ call.op = "toggle"
    /\ call.result = "NotSupported"
    /\ _attr_supported_features = {1}

\* C6: open or close, called directly, through the asynchronous wrapper or
\* through toggle, on a device that overrides neither, ends with
\* NotImplementedError at the caller.
C6_OpenCloseNotSupported ==
    (/\ call.pc = "returned"
     /\ \/ call.op = "open_cover" /\ "open_cover" \notin overridden
        \/ call.op = "close_cover" /\ "close_cover" \notin overridden
        \/ call.op = "toggle" /\ overridden \cap {"open_cover", "close_cover"} = {})
        => (call.result = "NotImplementedError" /\ call.exc = "NotImplementedError")

C6_Witness ==
    /\ call.pc = "returned"
    /\ call.op = "toggle"
    /\ call.origin = "async"
    /\ overridden = {}
    /\ call.result = "NotImplementedError"

NoOpPrimitives == {"set_cover_position", "stop_cover", "open_cover_tilt",
                   "close_cover_tilt", "set_cover_tilt_position", "stop_cover_tilt"}

\* C7: on a device that does not override it, each of set-position, stop,
\* open-tilt, close-tilt, set-tilt-position and stop-tilt (also when run for
\* toggle-tilt) ends normally and leaves the signals, the positions, state
\* and supported_features as they were.
C7_DefaultsAreNoOps ==
    [][/\ (/\ RunsPrimitive
           /\ call'.ran[1] \in NoOpPrimitives
           /\ call'.ran[1] \notin overridden)
          => /\ call'.exc = "ok"
             /\ _attr_is_opening' = _attr_is_opening
             /\ _attr_is_closing' = _attr_is_closing
             /\ _attr_is_closed' = _attr_is_closed
             /\ _attr_current_cover_position' = _attr_current_cover_position
             /\ _attr_current_cover_tilt_position' = _attr_current_cover_tilt_position
             /\ state' = state
             /\ FeaturesOf(_attr_supported_features', _attr_current_cover_position',
                           _attr_current_cover_tilt_position')
                  = {supported_features}
       /\ (/\ call'.pc = "returned"
           /\ call'.ran[1] \in NoOpPrimitives
           /\ call'.ran[1] \notin overridden)
          => call'.result = "ok"
      ]_vars

C7_Witness ==
    /\ call.pc = "returned"
    /\ call.op = "toggle_tilt"
    /\ call.ran = <<"close_cover_tilt">>
    /\ overridden = {}
    /\ call.result = "ok"

\* C8 as stated: the asynchronous wrapper of each of the ten operations hands
\* that operation's own synchronous primitive to a worker, and returns what
\* that primitive returned or raised only after it has run.
C8_WrapperRunsOwnPrimitive ==
    (call.origin \in {"async", "service"} /\ call.pc \in {"queued", "finished", "returned"})
        => /\ call.job = call.op
           /\ call.pc = "returned" => (call.ran = <<call.op>> /\ call.result = call.exc)

\* C8, amended: the wrappers of the eight primitives hand their own
\* primitive to a worker; async_toggle hands open_cover or close_cover and
\* async_toggle_tilt hands open_cover_tilt or close_cover_tilt, never toggle
\* or toggle_tilt.  Every wrapper returns only after the primitive it handed
\* over has run, with that primitive's outcome, a raised failure included.
C8_WrapperAwaitsJob ==
    (call.origin \in {"async", "service"} /\ call.pc \in {"queued", "finished", "returned"})
        => /\ call.op \in Primitives => call.job = call.op
           /\ call.op = "toggle" => call.job \in {"open_cover", "close_cover"}
           /\ call.op = "toggle_tilt" =>
                call.job \in {"open_cover_tilt", "close_cover_tilt"}
           /\ call.pc = "queued" => (call.ran = <<>> /\ call.result = "")
           /\ call.pc = "finished" => (call.ran = <<call.job>> /\ call.result = "")
           /\ call.pc = "returned" =>
                /\ call.ran = <<call.job>>
                /\ call.exc \in {"ok", "NotImplementedError", "DeviceCommunicationError"}
                /\ call.result = call.exc

C8_Witness ==
    /\ call.origin = "async"
    /\ call.pc = "returned"
    /\ call.op = "toggle"
    /\ call.job = "open_cover"
    /\ call.ran = <<"open_cover">>
    /\ call.result = "DeviceCommunicationError"

\* C9: a read of state, current_cover_position or current_cover_tilt_position
\* changes nothing of the entity or of the command in flight, and returns the
\* value of the signals as the driver last wrote them.
C9_ReadsAreFresh ==
    [][lastRead'.prop \in {"state", "current_cover_position",
                           "current_cover_tilt_position"}
        => /\ UNCHANGED <<coverFields, overridden, call>>
           /\ lastRead'.prop = "state" =>
                lastRead'.value = PrecedenceTable(_attr_is_opening', _attr_is_closing',
                                                  _attr_is_closed')
           /\ lastRead'.prop = "current_cover_position" =>
                lastRead'.value = _attr_current_cover_position'
           /\ lastRead'.prop = "current_cover_tilt_position" =>
                lastRead'.value = _attr_current_cover_tilt_position'
      ]_vars

C9_Witness ==
    /\ lastRead.prop = "state"
    /\ lastRead.value = {"closing"}
    /\ call.pc = "queued"
    /\ call.op = "open_cover"
    /\ _attr_is_closing = {TRUE}

\* C10: with a precision set, native_value is unknown, and nothing is raised,
\* when the cached value is not a number, and is the cached value rounded to
\* that many decimal places when it is one; with no precision it is the
\* cached value itself.
C10_NativeValue ==
    native.value.kind # "unread" =>
        /\ native.exc = ""
        /\ precision = {} => native.value = data
        /\ \A n \in precision :
             /\ data.kind \in {"str", "none"} =>
                  native.value = [kind |-> "none", num |-> 0, den |-> 1]
             /\ data.kind = "int" => native.value = data
             /\ data.kind = "float" =>
                  LET unit == Pow10(n)
                      diff == native.value.num * data.den - data.num * unit
                  IN  /\ native.value.kind = "float"
                      /\ native.value.den = unit
                      /\ 2 * diff <= data.den
                      /\ 2 * diff >= 0 - data.den

C10_Witness ==
    /\ precision = {0}
    /\ data = [kind |-> "str", num |-> 0, den |-> 1]
    /\ native = [exc |-> "", value |-> [kind |-> "none", num |-> 0, den |-> 1]]

====
